---- MODULE Spec2Model ----
(***************************************************************************)
(* Model of server.js: an express gateway that binds a public port, then   *)
(* spawns a gunicorn backend on an internal port, relays /api to it with   *)
(* http-proxy-middleware and serves every other path with express.static.  *)
(*                                                                         *)
(* The library calls are modelled by what they do at these call sites      *)
(* (express 4.x app.listen / app.use / express.static, http-proxy-         *)
(* middleware 2.x, node child_process.spawn and net.Server.listen).        *)
(* Strings that the code inspects (request paths, output chunks) are       *)
(* sequences of one-character strings.                                     *)
(***************************************************************************)
EXTENDS Integers, Sequences, FiniteSets, TLC

VARIABLES
    envPORT,        \* process.env.PORT: Unset, or a string
    portFree,       \* environment: the requested public port is free
    gunicornOk,     \* environment: the gunicorn command can be executed
    indexExists,    \* environment: index.html exists in __dirname
    gateway,        \* "loading" | "bound" | "serving" | "exited"
    exitStatus,     \* <<>> while the process runs, <<code>> once it exited
    boundPort,      \* <<>> or <<port>> of the listening socket
    backend,        \* "none" | "failed" | "starting" | "ready" | "exited" | "closed"
    backendCode,    \* <<>> or <<code>>; code is a number, or Null for a signal
    spawnCount,     \* number of calls of spawn (process handles created)
    spawnArgv,      \* command and arguments of the last spawn
    log,            \* console.log / console.error lines, in order
    outCount,       \* number of output chunks the backend has written
    req             \* the requests, by id

vars == <<envPORT, portFree, gunicornOk, indexExists, gateway, exitStatus,
          boundPort, backend, backendCode, spawnCount, spawnArgv, log,
          outCount, req>>

envVars == <<envPORT, portFree, gunicornOk, indexExists>>

----------------------------------------------------------------------------
(* Bounds *)

MaxOutput == 1
MaxHops == 2

\* request ids, in the order in which the requests arrive
Requests == {1, 2}

----------------------------------------------------------------------------
(* Constants of the program and of its environment *)

DEFAULT_PORT == 3000
PYTHON_PORT == 8081
MAX_PORT == 65535

Unset == "<unset>"
Null == "null"

\* values of the PORT environment variable that are explored
PortValues == {Unset, "", "0", "8081", "10000", "70000"}

\* Number(s) for the strings of PortValues
ToNumber(s) ==
    CASE s = "0" -> 0
      [] s = "8081" -> 8081
      [] s = "10000" -> 10000
      [] s = "70000" -> 70000

\* the port the operating system assigns when port 0 is requested
EphemeralPorts == {49152}

\* process.env.PORT || 3000 : undefined and "" are falsy, every other string
\* (also "0") is truthy
PORT == IF envPORT = Unset \/ envPORT = "" THEN DEFAULT_PORT ELSE ToNumber(envPORT)

\* what `${PORT}` prints
PortText == IF envPORT = Unset \/ envPORT = "" THEN "3000" ELSE envPORT

\* net.Server.listen: ports outside 0..65535 throw ERR_SOCKET_BAD_PORT
IsLegalPort(p) == p >= 0 /\ p <= MAX_PORT

\* the arguments of spawn
SpawnArgsUsingPORT == <<"gunicorn", "app:app", "--bind", "0.0.0.0", PORT>>
SpawnArgs == <<"gunicorn", "app:app", "--bind", "0.0.0.0", PYTHON_PORT>>

\* target of the relay
ProxyTarget == [host |-> "localhost", port |-> PYTHON_PORT]

----------------------------------------------------------------------------
(* Strings as character sequences *)

Lower(c) ==
    CASE c = "A" -> "a"
      [] c = "P" -> "p"
      [] c = "I" -> "i"
      [] OTHER -> c

LowerStr(s) == [i \in 1..Len(s) |-> Lower(s[i])]

Whitespace == {" ", "\n"}

RECURSIVE TrimLeft(_)
TrimLeft(s) ==
    IF s # <<>> /\ Head(s) \in Whitespace THEN TrimLeft(Tail(s)) ELSE s

RECURSIVE TrimRight(_)
TrimRight(s) ==
    IF s # <<>> /\ s[Len(s)] \in Whitespace
    THEN TrimRight(SubSeq(s, 1, Len(s) - 1)) ELSE s

\* data.toString().trim()
Trim(s) == TrimLeft(TrimRight(s))

\* chunks the backend writes to its output streams
Chunks == { <<" ", "o", "k", "\n">> }

StartsWith(s, prefix) ==
    Len(s) >= Len(prefix) /\ SubSeq(s, 1, Len(prefix)) = prefix

----------------------------------------------------------------------------
(* Request paths and the files of the static root (__dirname) *)

MOUNT == <<"/", "a", "p", "i">>

P_root == <<"/">>
P_file == <<"/", "a", ".", "j", "s">>
P_index == <<"/", "i", "n", "d", "e", "x", ".", "h", "t", "m", "l">>
P_missing == <<"/", "m">>
P_dotfile == <<"/", ".", "e">>
P_dir == <<"/", "d">>
P_dirSlash == <<"/", "d", "/">>
P_apix == <<"/", "a", "p", "i", "x">>
P_api == <<"/", "a", "p", "i">>
P_apiV == <<"/", "a", "p", "i", "/", "v">>
P_APIV == <<"/", "A", "P", "I", "/", "v">>

INDEX_NAME == <<"i", "n", "d", "e", "x", ".", "h", "t", "m", "l">>

\* the requests that are explored: method, path, query string
RequestSamples ==
    { <<"GET", P_root, "">>, <<"GET", P_file, "">>, <<"GET", P_index, "">>,
      <<"GET", P_missing, "">>, <<"GET", P_dotfile, "">>, <<"GET", P_dir, "">>,
      <<"GET", P_dirSlash, "">>, <<"POST", P_file, "">>, <<"GET", P_apix, "">>,
      <<"GET", P_api, "">>, <<"POST", P_apiV, "q=1">>, <<"GET", P_APIV, "">> }

\* fs.stat under the static root: "file", "dir" or "none" (ENOENT)
Stat(path) ==
    CASE path = <<>> -> "dir"
      [] path = P_file -> "file"
      [] path = P_dotfile -> "file"
      [] path = P_dir -> "dir"
      [] path = P_index -> IF indexExists THEN "file" ELSE "none"
      [] OTHER -> "none"

\* the bytes of a file: named by its path
Bytes(path) == <<"bytes of", path>>

HasTrailingSlash(path) == path # <<>> /\ path[Len(path)] = "/"

\* path without its trailing slash
DirOf(path) == IF HasTrailingSlash(path) THEN SubSeq(path, 1, Len(path) - 1) ELSE path

\* send's containsDotFile: some path segment longer than one character
\* starts with a dot
ContainsDotFile(path) ==
    \E i \in 1..Len(path) :
        /\ path[i] = "/"
        /\ i + 2 <= Len(path)
        /\ path[i + 1] = "."
        /\ path[i + 2] # "/"

----------------------------------------------------------------------------
(* app.use('/api', ...): express mounts the relay on a path *)

\* the mistaken match: any path that starts with the characters of the mount
MountMatchesNoBoundary(path) == StartsWith(path, MOUNT)

\* express 4 Layer for a mount path: /^\/api\/?(?=\/|$)/i
MountMatches(path) ==
    /\ Len(path) >= Len(MOUNT)
    /\ LowerStr(SubSeq(path, 1, Len(MOUNT))) = MOUNT
    /\ (Len(path) = Len(MOUNT) \/ path[Len(MOUNT) + 1] = "/")

\* req.url inside the mounted middleware: the mount path is removed
StripMount(path) ==
    IF Len(path) = Len(MOUNT) THEN <<"/">>
    ELSE SubSeq(path, Len(MOUNT) + 1, Len(path))

\* the mistaken path of the outgoing request: req.url as express left it
ProxyPathStripped(originalUrl, url) == url

\* http-proxy-middleware 2.x: req.url = req.originalUrl || req.url
ProxyPath(originalUrl, url) == originalUrl

\* changeOrigin: true sets the outgoing Host header to the target's
ProxyHost(host) == <<ProxyTarget.host, ProxyTarget.port>>

\* the status the relay's error handler writes for a connection error
ErrorStatusInternal(code) == 500
ErrorStatus(code) ==
    CASE code \in {"ECONNRESET", "ENOTFOUND", "ECONNREFUSED", "ETIMEDOUT"} -> 504
      [] OTHER -> 500

\* the relay passes the backend's status and body on
RelayResponse(resp) == resp

\* the responses the backend can give
BackendResponses == { [status |-> 200, body |-> <<"voices">>],
                      [status |-> 404, body |-> <<"no such route">>] }

----------------------------------------------------------------------------
(* app.use(express.static(__dirname)) *)

\* express's final handler, when no middleware answered
NotFound == [status |-> 404, body |-> <<"Cannot">>, by |-> "final"]

\* the mistaken fallback: a path that is no file gets the index document
ServeStaticSpaFallback(method, path) ==
    IF method \notin {"GET", "HEAD"} THEN NotFound
    ELSE IF Stat(path) = "file"
         THEN [status |-> 200, body |-> Bytes(path), by |-> "static"]
         ELSE IF Stat(P_index) = "file"
              THEN [status |-> 200, body |-> Bytes(P_index), by |-> "static"]
              ELSE NotFound

\* serve-static with its defaults (fallthrough, redirect, index.html,
\* dotfiles ignored), followed by express's final handler
ServeStatic(method, path) ==
    IF method \notin {"GET", "HEAD"} THEN NotFound
    ELSE IF ContainsDotFile(path) THEN NotFound
    ELSE IF HasTrailingSlash(path)
         THEN IF Stat(DirOf(path)) = "dir" /\ Stat(path \o INDEX_NAME) = "file"
              THEN [status |-> 200, body |-> Bytes(path \o INDEX_NAME), by |-> "static"]
              ELSE NotFound
    ELSE CASE Stat(path) = "file" ->
                [status |-> 200, body |-> Bytes(path), by |-> "static"]
           [] Stat(path) = "dir" ->
                [status |-> 301, body |-> <<"Redirecting to", path \o <<"/">> >>,
                 by |-> "static"]
           [] OTHER -> NotFound

----------------------------------------------------------------------------
(* State *)

ExitCodes == {"0", "1", Null}

CALLER_HOST == <<"example.com">>

IdleRequest ==
    [state |-> "idle", method |-> "", path |-> <<>>, query |-> "",
     route |-> "none", out |-> <<>>, forwarded |-> FALSE, err |-> "",
     backendResp |-> <<>>, resp |-> <<>>, hops |-> 0]

Init ==
    /\ envPORT \in PortValues
    /\ portFree \in BOOLEAN
    /\ gunicornOk \in BOOLEAN
    /\ indexExists \in BOOLEAN
    /\ gateway = "loading"
    /\ exitStatus = <<>>
    /\ boundPort = <<>>
    /\ backend = "none"
    /\ backendCode = <<>>
    /\ spawnCount = 0
    /\ spawnArgv = <<>>
    /\ log = <<>>
    /\ outCount = 0
    /\ req = [r \in Requests |-> IdleRequest]

\* an 'error' event without a listener, or an exception nobody catches:
\* node prints it and the process exits with status 1
Uncaught(logBefore, what) ==
    /\ gateway' = "exited"
    /\ exitStatus' = <<1>>
    /\ log' = Append(logBefore, <<"error", "Uncaught", what>>)

----------------------------------------------------------------------------
(* Startup: app.listen(PORT, callback) *)

\* the mistaken listen: the callback is also run when the bind fails
ListenCallsBackOnError ==
    /\ gateway = "loading"
    /\ IF ~IsLegalPort(PORT)
       THEN Uncaught(log, "ERR_SOCKET_BAD_PORT") /\ UNCHANGED boundPort
       ELSE IF PORT # 0 /\ ~portFree
            THEN gateway' = "bound" /\ UNCHANGED <<exitStatus, log, boundPort>>
            ELSE /\ gateway' = "bound"
                 /\ \E e \in EphemeralPorts :
                        boundPort' = IF PORT = 0 THEN <<e>> ELSE <<PORT>>
                 /\ UNCHANGED <<exitStatus, log>>
    /\ UNCHANGED <<envVars, backend, backendCode, spawnCount, spawnArgv,
                   outCount, req>>

\* http.createServer(app).listen(PORT): the socket is bound, or the process
\* dies of the error
Listen ==
    /\ gateway = "loading"
    /\ IF ~IsLegalPort(PORT)
       THEN Uncaught(log, "ERR_SOCKET_BAD_PORT") /\ UNCHANGED boundPort
       ELSE IF PORT # 0 /\ ~portFree
            THEN Uncaught(log, "EADDRINUSE") /\ UNCHANGED boundPort
            ELSE /\ gateway' = "bound"
                 /\ \E e \in EphemeralPorts :
                        boundPort' = IF PORT = 0 THEN <<e>> ELSE <<PORT>>
                 /\ UNCHANGED <<exitStatus, log>>
    /\ UNCHANGED <<envVars, backend, backendCode, spawnCount, spawnArgv,
                   outCount, req>>

\* startPythonServer: logs, spawns gunicorn and registers the three
\* observers; a spawn that fails emits 'error' on the handle, which has no
\* listener. logBefore and logAfter are the caller's lines around the call.
startPythonServer(logBefore, logAfter) ==
    /\ spawnCount' = spawnCount + 1
    /\ spawnArgv' = SpawnArgs
    /\ backendCode' = <<>>
    /\ outCount' = outCount
    /\ LET started == Append(logBefore, <<"log", "Starting Python Gunicorn server...">>)
                          \o logAfter
       IN IF gunicornOk
          THEN /\ backend' = "starting"
               /\ gateway' = "serving"
               /\ log' = started
               /\ UNCHANGED exitStatus
          ELSE /\ backend' = "failed"
               /\ Uncaught(started, "spawn gunicorn ENOENT")

ListeningLine == <<"log", "Node.js wrapper server listening on port", PortText>>

\* the mistaken callback: the backend is started before the line is logged
ListeningCallbackStartsFirst ==
    /\ gateway = "bound"
    /\ startPythonServer(log, <<ListeningLine>>)
    /\ UNCHANGED <<envVars, boundPort, req>>

\* the callback of app.listen, run once for the 'listening' event
ListeningCallback ==
    /\ gateway = "bound"
    /\ startPythonServer(Append(log, ListeningLine), <<>>)
    /\ UNCHANGED <<envVars, boundPort, req>>

----------------------------------------------------------------------------
(* The backend process and its three observers *)

\* gunicorn binds 0.0.0.0:8081 and accepts connections; it cannot while the
\* gateway itself holds that port
BackendReady ==
    /\ backend = "starting"
    /\ boundPort # <<PYTHON_PORT>>
    /\ backend' = "ready"
    /\ UNCHANGED <<envVars, gateway, exitStatus, boundPort, backendCode,
                   spawnCount, spawnArgv, log, outCount, req>>

\* the backend process ends (exit, crash, signal); connections it held are
\* reset
BackendExit(code) ==
    /\ backend \in {"starting", "ready"}
    /\ backend' = "exited"
    /\ backendCode' = <<code>>
    /\ req' = [r \in Requests |->
                 IF req[r].state = "atBackend"
                 THEN [req[r] EXCEPT !.state = "reset", !.err = "ECONNRESET"]
                 ELSE req[r]]
    /\ UNCHANGED <<envVars, gateway, exitStatus, boundPort, spawnCount,
                   spawnArgv, log, outCount>>

\* pythonServer.stdout.on('data')
OnStdout(data) ==
    /\ gateway = "serving"
    /\ backend \in {"starting", "ready", "exited"}
    /\ outCount < MaxOutput
    /\ outCount' = outCount + 1
    /\ log' = Append(log, <<"log", "[Python STDOUT]:", Trim(data)>>)
    /\ UNCHANGED <<envVars, gateway, exitStatus, boundPort, backend,
                   backendCode, spawnCount, spawnArgv, req>>

\* pythonServer.stderr.on('data')
OnStderr(data) ==
    /\ gateway = "serving"
    /\ backend \in {"starting", "ready", "exited"}
    /\ outCount < MaxOutput
    /\ outCount' = outCount + 1
    /\ log' = Append(log, <<"error", "[Python STDERR]:", Trim(data)>>)
    /\ UNCHANGED <<envVars, gateway, exitStatus, boundPort, backend,
                   backendCode, spawnCount, spawnArgv, req>>

ExitLine == <<"log", "Python server process exited with code", backendCode[1]>>

\* the mistaken observer: the backend is started again when it ends
OnCloseRespawns ==
    /\ gateway = "serving"
    /\ backend = "exited"
    /\ startPythonServer(Append(log, ExitLine), <<>>)
    /\ UNCHANGED <<envVars, boundPort, req>>

\* the mistaken observer: the gateway exits with the backend
OnCloseExits ==
    /\ gateway = "serving"
    /\ backend = "exited"
    /\ backend' = "closed"
    /\ log' = Append(log, ExitLine)
    /\ gateway' = "exited"
    /\ exitStatus' = <<1>>
    /\ UNCHANGED <<envVars, boundPort, backendCode, spawnCount, spawnArgv,
                   outCount, req>>

\* pythonServer.on('close')
OnClose ==
    /\ gateway = "serving"
    /\ backend = "exited"
    /\ backend' = "closed"
    /\ log' = Append(log, ExitLine)
    /\ UNCHANGED <<envVars, gateway, exitStatus, boundPort, backendCode,
                   spawnCount, spawnArgv, outCount, req>>

----------------------------------------------------------------------------
(* Requests *)

\* the relay, entered for a request under the mount: it opens a connection
\* to the target; the backend takes it, or the gateway's own socket does
\* (when that is bound to the target port), or it is refused
Proxy(r, method, path, query) ==
    LET out == [method |-> method,
                path |-> ProxyPath(path, StripMount(path)),
                query |-> query,
                host |-> ProxyHost(CALLER_HOST)]
        base == [req[r] EXCEPT !.method = method, !.path = path,
                               !.query = query, !.route = "proxy",
                               !.out = <<out>>]
    IN IF backend = "ready"
       THEN [base EXCEPT !.state = "atBackend", !.forwarded = TRUE]
       ELSE IF boundPort = <<PYTHON_PORT>>
            THEN [base EXCEPT !.state = "looping", !.hops = 1]
            ELSE [base EXCEPT !.state = "refused", !.err = "ECONNREFUSED"]

\* express.static, entered for every other request
Static(r, method, path, query) ==
    [req[r] EXCEPT !.method = method, !.path = path, !.query = query,
                   !.route = "static",
                   !.state = "done",
                   !.resp = <<ServeStatic(method, path)>>]

\* a request arrives and runs through the middleware stack
Receive(r, method, path, query) ==
    /\ gateway = "serving"
    /\ req[r].state = "idle"
    /\ \A q \in Requests : q < r => req[q].state # "idle"
    /\ req' = [req EXCEPT ![r] =
                 IF MountMatches(path)
                 THEN Proxy(r, method, path, query)
                 ELSE Static(r, method, path, query)]
    /\ UNCHANGED <<envVars, gateway, exitStatus, boundPort, backend,
                   backendCode, spawnCount, spawnArgv, log, outCount>>

\* the gateway proxies to its own socket: the relayed request arrives at
\* the same mount and is relayed again
Loop(r) ==
    /\ gateway = "serving"
    /\ req[r].state = "looping"
    /\ req[r].hops < MaxHops
    /\ req' = [req EXCEPT ![r].hops = @ + 1]
    /\ UNCHANGED <<envVars, gateway, exitStatus, boundPort, backend,
                   backendCode, spawnCount, spawnArgv, log, outCount>>

\* the backend answers a request it was handed
BackendRespond(r, b) ==
    /\ backend = "ready"
    /\ req[r].state = "atBackend"
    /\ req' = [req EXCEPT ![r].state = "answered", ![r].backendResp = <<b>>]
    /\ UNCHANGED <<envVars, gateway, exitStatus, boundPort, backend,
                   backendCode, spawnCount, spawnArgv, log, outCount>>

\* the relay passes the backend's answer to the caller
Relay(r) ==
    /\ gateway = "serving"
    /\ req[r].state = "answered"
    /\ LET b == RelayResponse(req[r].backendResp[1])
       IN req' = [req EXCEPT ![r].state = "done",
                             ![r].resp = <<[status |-> b.status, body |-> b.body,
                                            by |-> "proxy"]>>]
    /\ UNCHANGED <<envVars, gateway, exitStatus, boundPort, backend,
                   backendCode, spawnCount, spawnArgv, log, outCount>>

\* the relay's error handler answers a request whose connection failed
ProxyError(r) ==
    /\ gateway = "serving"
    /\ req[r].state \in {"refused", "reset"}
    /\ req' = [req EXCEPT ![r].state = "done",
                          ![r].resp = <<[status |-> ErrorStatus(req[r].err),
                                         body |-> <<"Error occurred while trying to proxy">>,
                                         by |-> "proxyError"]>>]
    /\ UNCHANGED <<envVars, gateway, exitStatus, boundPort, backend,
                   backendCode, spawnCount, spawnArgv, log, outCount>>

----------------------------------------------------------------------------
(* Specifications *)

Next ==
    \/ Listen
    \/ ListeningCallback
    \/ BackendReady
    \/ \E code \in ExitCodes : BackendExit(code)
    \/ \E data \in Chunks : OnStdout(data)
    \/ \E data \in Chunks : OnStderr(data)
    \/ OnClose
    \/ \E r \in Requests, s \in RequestSamples : Receive(r, s[1], s[2], s[3])
    \/ \E r \in Requests : Loop(r)
    \/ \E r \in Requests, b \in BackendResponses : BackendRespond(r, b)
    \/ \E r \in Requests : Relay(r)
    \/ \E r \in Requests : ProxyError(r)

Spec == Init /\ [][Next]_vars

\* the event loop runs every callback that is due: the observers of the
\* backend handle and the handlers of the relay
FairSpec ==
    /\ Spec
    /\ WF_vars(OnClose)
    /\ \A r \in Requests : WF_vars(ProxyError(r))
    /\ \A r \in Requests : WF_vars(Relay(r))

----------------------------------------------------------------------------
(* Helpers of the properties *)

StartingLine == <<"log", "Starting Python Gunicorn server...">>

GatewayErrors == {502, 504}

Done(r) == req[r].state = "done"

\* a path under the mount: the mount itself or the mount followed by "/",
\* letter case ignored
UnderMount(path) ==
    \/ LowerStr(path) = MOUNT
    \/ StartsWith(LowerStr(path), MOUNT \o <<"/">>)

\* the public port the PORT variable asks for
RequestedPort ==
    CASE envPORT = Unset -> 3000
      [] envPORT = "" -> 3000
      [] OTHER -> ToNumber(envPORT)

FixedSpawn == <<"gunicorn", "app:app", "--bind", "0.0.0.0", 8081>>

\* a step from a state in which the backend has ended: nothing is spawned
\* and the gateway goes on serving
BackendStaysEnded ==
    backend \in {"exited", "closed"} =>
        /\ spawnCount' = spawnCount
        /\ exitStatus' = exitStatus
        /\ backend' \in {"exited", "closed"}
        /\ gateway' = "serving"

\* a step in which a proxy-route request arrives after the backend has
\* ended: its connection is refused (or, when the gateway itself holds the
\* target port, taken by the gateway), never taken by a backend
LaterProxyRequestIsRefused ==
    \A r \in Requests :
        (backend \in {"exited", "closed"} /\ req[r].state = "idle"
            /\ req'[r].state # "idle" /\ UnderMount(req'[r].path)) =>
                /\ ~req'[r].forwarded
                /\ req'[r].state = IF boundPort = <<8081>> THEN "looping" ELSE "refused"

\* a step from a state in which a request was refused: the request is not
\* handed to the backend and not sent again
RefusedIsFinal ==
    \A r \in Requests :
        req[r].state = "refused" =>
            /\ req'[r].state \in {"refused", "done"}
            /\ ~req'[r].forwarded
            /\ req'[r].out = req[r].out

----------------------------------------------------------------------------
(* The claims *)

\* C1: in every reachable state spawn has been called at most once, and a
\* backend process that is alive is that one process: no second backend is
\* ever started, whatever events (output, exit, requests) have happened.
C1_AtMostOneBackend ==
    /\ spawnCount <= 1
    /\ (backend # "none" => spawnCount = 1)

C1_Witness ==
    /\ spawnCount = 1
    /\ backend = "closed"
    /\ outCount > 0
    /\ \A r \in Requests : Done(r)

\* C2: whenever the backend has been spawned, the listening socket is
\* bound and the 'listening on port' line was logged before the 'Starting'
\* line; and the gateway serves requests as soon as the backend is spawned,
\* without waiting for it to become ready.
C2_SpawnAfterBind ==
    /\ spawnCount > 0 =>
          /\ boundPort # <<>>
          /\ \E i, j \in 1..Len(log) :
                i < j /\ log[i] = ListeningLine /\ log[j] = StartingLine
    /\ backend = "starting" => gateway = "serving"

C2_Witness ==
    /\ backend = "starting"
    /\ spawnCount = 1
    /\ \E r \in Requests : Done(r)

\* C3: when the public port is occupied, the process has exited with a
\* non-zero status as soon as it has tried to listen, no socket is bound and
\* spawn was never called.
C3_OccupiedPortIsFatal ==
    (~portFree /\ IsLegalPort(RequestedPort) /\ RequestedPort # 0
        /\ gateway # "loading") =>
       /\ gateway = "exited"
       /\ exitStatus # <<>>
       /\ exitStatus[1] # 0
       /\ boundPort = <<>>
       /\ spawnCount = 0
       /\ backend = "none"

C3_Witness ==
    /\ ~portFree
    /\ RequestedPort = 3000
    /\ gateway = "exited"
    /\ exitStatus = <<1>>

\* C4 (as claimed): when spawning the backend fails, the gateway keeps
\* running and serving.
C4_SpawnFailureKeepsGateway ==
    backend = "failed" => (gateway = "serving" /\ exitStatus = <<>>)

C8_PrefixDispatch ==
    \A r \in Requests :
        req[r].state # "idle" =>
            IF StartsWith(req[r].path, MOUNT)
            THEN /\ req[r].route = "proxy"
                 /\ Done(r) => req[r].resp[1].by \in {"proxy", "proxyError"}
            ELSE /\ req[r].route = "static"
                 /\ req[r].out = <<>>
                 /\ ~req[r].forwarded

\* C8 (amended): a request whose path is /api or begins with /api/, letter
\* case ignored, is handed to the relay and never answered from the static
\* root, whatever the backend's state; every other request (also one whose
\* path merely starts with the characters /api) is resolved against the
\* static root and never relayed.
C8_MountDispatch ==
    \A r \in Requests :
        req[r].state # "idle" =>
            IF UnderMount(req[r].path)
            THEN /\ req[r].route = "proxy"
                 /\ req[r].out # <<>>
                 /\ Done(r) => req[r].resp[1].by \in {"proxy", "proxyError"}
            ELSE /\ req[r].route = "static"
                 /\ req[r].out = <<>>
                 /\ ~req[r].forwarded
                 /\ Done(r) /\ req[r].resp[1].by \in {"static", "final"}

C8_Witness ==
    /\ \E r \in Requests :
          req[r].path = P_apix /\ req[r].route = "static" /\ Done(r)
    /\ \E r \in Requests :
          req[r].path = P_APIV /\ req[r].route = "proxy" /\ Done(r)
            /\ req[r].resp[1].by = "proxy"

\* C9 (as claimed): the backend is spawned with the same command and bind
\* argument 0.0.0.0:8081 whatever PORT is, and the public port is PORT, or
\* 3000 when PORT is unset or empty, for any number.
C9_PortIsPORT ==
    /\ spawnCount > 0 => spawnArgv = FixedSpawn
    /\ boundPort # <<>> => boundPort = <<RequestedPort>>

\* C9 (amended): the backend is spawned with the same command and bind
\* argument 0.0.0.0:8081 whatever PORT is, and the public port is PORT, or
\* 3000 when PORT is unset or empty, for a PORT from 1 to 65535; with PORT
\* 0 the operating system picks the port, and a larger number binds none.
C9_FixedBackendPort ==
    /\ spawnCount > 0 => spawnArgv = FixedSpawn
    /\ (boundPort # <<>> /\ RequestedPort \in 1..65535) =>
          boundPort = <<RequestedPort>>
    /\ (boundPort # <<>> /\ RequestedPort = 0) => boundPort[1] \in EphemeralPorts
    /\ RequestedPort > 65535 => boundPort = <<>> /\ spawnCount = 0

C9_Witness ==
    /\ envPORT = "8081"
    /\ boundPort = <<8081>>
    /\ spawnCount = 1
    /\ spawnArgv = FixedSpawn

====
